---- MODULE Spec2Model ----
(***************************************************************************)
(* Model of the video transcription / summary micro-service:               *)
(*   server.js            POST /process handler (save upload, run the      *)
(*                        pipeline, delete the upload, answer)             *)
(*   lib/processVideo.js  processVideoFile (ffmpeg probe, audio            *)
(*                        extraction, ASR call, summarization, cleanup)    *)
(* Every await of the two functions is one step of a request, so requests  *)
(* interleave exactly where the event loop can interleave them.            *)
(*                                                                         *)
(* JavaScript values are tagged tuples; strings are sequences of tokens,   *)
(* so concatenation is \o and the empty string is <<>>.                    *)
(***************************************************************************)
EXTENDS Integers, Sequences, FiniteSets

\* ------------------------------------------------------------------ bounds
MaxReq == 2          \* request slots that can be in flight together
MaxTime == 1         \* Date.now() takes the values 0..MaxTime

Reqs == 1..MaxReq
Times == 0..MaxTime

\* ------------------------------------------------------- JavaScript values
Undefined == <<"undefined">>
Null == <<"null">>
Absent == <<"absent">>                 \* a key that is not in a JSON body
Str(s) == <<"str", s>>
Num(n) == <<"num", n>>                 \* n: the digits, one token
Arr(es) == <<"arr", es>>
Obj(kvs) == <<"obj", kvs>>             \* kvs: sequence of <<key, value>>
Err(msg) == <<"err", msg>>             \* new Error(msg)

Tag(v) == v[1]
IsString(v) == Tag(v) = "str"          \* typeof v === "string"
IsArray(v) == Tag(v) = "arr"           \* Array.isArray(v)

\* v.length, 0 standing for the undefined of a value that has none
Length(v) == IF Tag(v) \in {"str", "arr"} THEN Len(v[2]) ELSE 0

\* ToBoolean(v), as used by if (...), ||, and ?:
Truthy(v) ==
  CASE Tag(v) = "undefined" -> FALSE
    [] Tag(v) = "null" -> FALSE
    [] Tag(v) = "absent" -> FALSE
    [] Tag(v) = "str" -> Len(v[2]) > 0
    [] Tag(v) = "num" -> v[2] # "0"
    [] OTHER -> TRUE

\* v.k for a value that is neither null nor undefined
Get(v, k) ==
  IF Tag(v) = "obj" /\ \E i \in 1..Len(v[2]) : v[2][i][1] = k
  THEN v[2][CHOOSE i \in 1..Len(v[2]) : v[2][i][1] = k][2]
  ELSE Undefined

\* v[0] for a value that is neither null nor undefined
First(v) ==
  IF Tag(v) = "arr" /\ Len(v[2]) > 0 THEN v[2][1] ELSE Undefined

\* v?.k
OptGet(v, k) == IF Tag(v) \in {"undefined", "null"} THEN Undefined ELSE Get(v, k)

\* does v.slice exist (String.prototype.slice, Array.prototype.slice)
HasSlice(v) == Tag(v) \in {"str", "arr"}

\* the text of v as JSON.stringify writes it (v is not undefined)
RECURSIVE JSONText(_)
RECURSIVE JSONElems(_, _)
RECURSIVE JSONFields(_, _)
JSONElems(es, i) ==
  IF i > Len(es) THEN <<>>
  ELSE (IF i > 1 THEN <<",">> ELSE <<>>)
       \o (IF Tag(es[i]) = "undefined" THEN <<"null">> ELSE JSONText(es[i]))
       \o JSONElems(es, i + 1)
JSONFields(kvs, i) ==
  IF i > Len(kvs) THEN <<>>
  ELSE IF Tag(kvs[i][2]) = "undefined" THEN JSONFields(kvs, i + 1)
  ELSE (IF i > 1 THEN <<",">> ELSE <<>>)
       \o <<"\"", kvs[i][1], "\"", ":">> \o JSONText(kvs[i][2])
       \o JSONFields(kvs, i + 1)
JSONText(v) ==
  CASE Tag(v) = "null" -> <<"null">>
    [] Tag(v) = "str" -> <<"\"">> \o v[2] \o <<"\"">>
    [] Tag(v) = "num" -> <<v[2]>>
    [] Tag(v) = "arr" -> <<"[">> \o JSONElems(v[2], 1) \o <<"]">>
    [] Tag(v) = "obj" -> <<"{">> \o JSONFields(v[2], 1) \o <<"}">>
    [] Tag(v) = "err" -> <<"{", "}">>
    [] OTHER -> <<"null">>

\* JSON.stringify(v): undefined for undefined, a string otherwise
JSONstringify(v) == IF Tag(v) = "undefined" THEN Undefined ELSE Str(JSONText(v))

\* String(v) / `${v}` / "" + v
RECURSIVE ToStr(_)
RECURSIVE JoinElems(_, _)
JoinElems(es, i) ==
  IF i > Len(es) THEN <<>>
  ELSE (IF i > 1 THEN <<",">> ELSE <<>>)
       \o (IF Tag(es[i]) \in {"undefined", "null"} THEN <<>> ELSE ToStr(es[i]))
       \o JoinElems(es, i + 1)
ToStr(v) ==
  CASE Tag(v) = "undefined" -> <<"undefined">>
    [] Tag(v) = "null" -> <<"null">>
    [] Tag(v) = "str" -> v[2]
    [] Tag(v) = "num" -> <<v[2]>>
    [] Tag(v) = "arr" -> JoinElems(v[2], 1)
    [] Tag(v) = "err" -> IF Len(v[2]) > 0 THEN <<"Error: ">> \o v[2] ELSE <<"Error">>
    [] OTHER -> <<"[object Object]">>

\* err?.message || err, spliced into a string
ErrMessage(e) ==
  IF Truthy(OptGet(e, "message")) THEN ToStr(OptGet(e, "message"))
  ELSE IF Tag(e) = "err" /\ Len(e[2]) > 0 THEN e[2]
  ELSE ToStr(e)

\* ---------------------------------------------------- ASR response handling
\* A call outcome is <<"ok", value>> or <<"throw", thrown value>>.
Ok(v) == <<"ok", v>>
Throw(e) == <<"throw", e>>
IsOk(o) == o[1] = "ok"

\* what the ASR service can put in a JSON body for an audio whose speech is m
AsrDocs(m) ==
  { Obj(<< <<"text", Str(<<m>>)>> >>),
    Obj(<< <<"transcription", Str(<<m>>)>> >>),
    Arr(<< Obj(<< <<"text", Str(<<m>>)>> >>) >>),
    Str(<<m>>),
    Null,
    Obj(<<>>),
    Arr(<<>>),
    Obj(<< <<"text", Str(<<>>)>> >>),
    Obj(<< <<"text", Arr(<<Str(<<m>>)>>)>> >>),
    Obj(<< <<"text", Num("5")>> >>) }

\* res.text(): the empty body, a body that is not JSON, or a JSON document
AsrBodies(m) == { <<>>, <<m>> } \cup { JSONText(d) : d \in AsrDocs(m) }

\* JSON.parse(raw): the document whose text is raw, a SyntaxError otherwise
JSONparse(raw, docs) ==
  IF \E d \in docs : JSONText(d) = raw
  THEN Ok(CHOOSE d \in docs : JSONText(d) = raw)
  ELSE Throw(Err(<<"Unexpected token">>))

\* lines 96-101: asrJson = raw ? JSON.parse(raw) : null, raw itself if that throws
ParseAsr(raw, docs) ==
  IF Len(raw) = 0 THEN Null
  ELSE IF IsOk(JSONparse(raw, docs)) THEN JSONparse(raw, docs)[2]
  ELSE Str(raw)

\* mutant: a response without a transcript field gives the empty string
PickTranscriptionOrEmpty(asrJson) ==
  IF ~Truthy(asrJson) THEN Str(<<>>)
  ELSE IF IsString(asrJson) THEN asrJson
  ELSE IF Truthy(Get(asrJson, "text")) THEN Get(asrJson, "text")
  ELSE IF Truthy(Get(asrJson, "transcription")) THEN Get(asrJson, "transcription")
  ELSE IF IsArray(asrJson) /\ Truthy(OptGet(First(asrJson), "text"))
       THEN Get(First(asrJson), "text")
  ELSE Str(<<>>)

\* lines 102-108: the transcript picked out of the parsed response
PickTranscription(asrJson) ==
  IF ~Truthy(asrJson) THEN Str(<<>>)
  ELSE IF IsString(asrJson) THEN asrJson
  ELSE IF Truthy(Get(asrJson, "text")) THEN Get(asrJson, "text")
  ELSE IF Truthy(Get(asrJson, "transcription")) THEN Get(asrJson, "transcription")
  ELSE IF IsArray(asrJson) /\ Truthy(OptGet(First(asrJson), "text"))
       THEN Get(First(asrJson), "text")
  ELSE JSONstringify(asrJson)

\* line 110: transcription.slice(0, 400) throws when the value has no slice
LogTranscription(t) ==
  IF HasSlice(t) THEN Ok(t)
  ELSE Throw(Err(<<"transcription.slice is not a function">>))

\* lines 82-110 for an OK response with body raw
NormalizeAsr(raw, docs) == LogTranscription(PickTranscription(ParseAsr(raw, docs)))

\* lines 83-93: the error thrown for a non-OK status
AsrHttpError(raw) == Err(<<"HF ASR failed: ", "503", " ", "Service Unavailable", " - ">> \o raw)

\* lines 111-115: the error the ASR catch block throws
AsrFailed(e) == Err(<<"ASR failed: ">> \o ErrMessage(e))

\* ------------------------------------------------ summarization handling
\* line 120: the prompt
Prompt(t) ==
  <<"Summarize the transcript below into a concise summary (<= 3 sentences):\n\n">>
    \o ToStr(t)

\* what chatCompletion can return for a prompt p
Choice(c) == Obj(<< <<"choices", Arr(<<c>>)>> >>)
SumOuts(p) ==
  LET S == Str(<<"summary of: ">> \o p) IN
  { Choice(Obj(<< <<"message", Obj(<< <<"content", S>> >>)>> >>)),
    Choice(Obj(<< <<"text", S>> >>)),
    Choice(Obj(<< <<"generated_text", S>> >>)),
    Choice(Obj(<<>>)),
    Choice(Null),
    Choice(Obj(<< <<"message", Obj(<< <<"content", Arr(<<S>>)>> >>)>> >>)),
    Choice(Obj(<< <<"message", Obj(<< <<"content", Num("5")>> >>)>> >>)),
    Obj(<< <<"choices", Arr(<<>>)>> >>),
    S,
    Obj(<< <<"generated_text", S>> >>),
    Null,
    Undefined }

\* what chatCompletion can throw
SumErrors == { Err(<<"HTTP 503">>), Err(<<>>) }

\* lines 129-137: the summary picked out of the response
PickSummary(sumOut) ==
  LET choices == OptGet(sumOut, "choices") IN
  IF Truthy(choices) /\ Length(choices) > 0 THEN
    LET c == First(choices) IN
    IF Tag(c) \in {"null", "undefined"}
    THEN Throw(Err(<<"Cannot read properties of null (reading 'message')">>))
    ELSE IF Truthy(OptGet(Get(c, "message"), "content"))
         THEN Ok(Get(Get(c, "message"), "content"))
    ELSE IF Truthy(Get(c, "text")) THEN Ok(Get(c, "text"))
    ELSE IF Truthy(Get(c, "generated_text")) THEN Ok(Get(c, "generated_text"))
    ELSE Ok(JSONstringify(c))
  ELSE IF IsString(sumOut) THEN Ok(sumOut)
  ELSE IF Truthy(OptGet(sumOut, "generated_text")) THEN Ok(Get(sumOut, "generated_text"))
  ELSE Ok(JSONstringify(sumOut))

\* line 139: (summary || "").slice(0, 400)
LogSummary(s) ==
  IF ~Truthy(s) \/ HasSlice(s) THEN Ok(s)
  ELSE Throw(Err(<<"(summary || \"\").slice is not a function">>))

\* mutant: the catch block only logs
SummaryErrorLogOnly(e) == Str(<<>>)

\* lines 140-143: the summary the catch block substitutes
SummaryError(e) == Str(<<"Error generating summary: ">> \o ErrMessage(e))

\* lines 119-143 as a whole: the summary for a call outcome o
NormalizeSummary(o) ==
  IF ~IsOk(o) THEN SummaryError(o[2])
  ELSE IF ~IsOk(PickSummary(o[2])) THEN SummaryError(PickSummary(o[2])[2])
  ELSE IF ~IsOk(LogSummary(PickSummary(o[2])[2]))
       THEN SummaryError(LogSummary(PickSummary(o[2])[2])[2])
  ELSE PickSummary(o[2])[2]

\* ------------------------------------------------------------------ state
VARIABLES
  now,            \* Date.now()
  files,          \* os.tmpdir(): path -> content
  pc,             \* where each request is suspended
  videoPath,      \* server.js videoPath
  audioPath,      \* processVideoFile audioPath
  audioBuffer,    \* processVideoFile audioBuffer
  transcription,  \* processVideoFile transcription
  summary,        \* processVideoFile summary
  prompt,         \* the prompt sent to chatCompletion
  error,          \* the exception in flight
  response,       \* what res.json sent
  trace,          \* the blocking operations the request has completed
  asrRes,         \* what fetch + res.text() delivered
  ffmpegStatic,   \* the path ffmpeg-static exports, or null
  ffmpegBin,      \* processVideoFile ffmpegBin
  ff,             \* processVideoFile ff
  execd,          \* the binaries the request has run
  drawn,          \* the kinds of name that took the current millisecond
  clash           \* two names of one kind took the same millisecond

vars == <<now, files, pc, videoPath, audioPath, audioBuffer, transcription,
          summary, prompt, error, response, trace, asrRes, ffmpegStatic, ffmpegBin, ff, execd, drawn, clash>>

MarkerNames == <<"m1", "m2", "m3", "m4">>
Marker(r) == MarkerNames[r]            \* the speech in request r's upload

NoPath == <<"none", 0>>
Paths == {"upload", "audio"} \X Times
NoFile == <<"nofile", "">>

\* mutant: the audio is named like the upload
AudioPathAsUpload(t) == <<"upload", t>>

\* server.js lines 83-84: upload_${Date.now()}.mp4 in the temp directory
VideoPathAt(t) == <<"upload", t>>
\* processVideo.js line 31: audio_${Date.now()}.wav in the temp directory
AudioPathAt(t) == <<"audio", t>>

NoBuffer == <<"nobuffer", "">>
Bundled == Str(<<"/app/node_modules/ffmpeg-static/ffmpeg">>)
NoAsrRes == [fail |-> FALSE, ok |-> FALSE, raw |-> <<"none">>]
NoResponse == [status |-> 0, error |-> Absent, transcription |-> Absent, summary |-> Absent]

\* res.json drops a key whose value is undefined
JsonField(v) == IF Tag(v) = "undefined" THEN Absent ELSE v

\* server.js line 79
Response400 ==
  [status |-> 400, error |-> Str(<<"video file required">>),
   transcription |-> Absent, summary |-> Absent]
\* server.js line 94
Response200(t, s) ==
  [status |-> 200, error |-> Absent,
   transcription |-> JsonField(t), summary |-> JsonField(s)]
\* server.js line 99
Response500(e) ==
  [status |-> 500, error |-> Str(ToStr(e)),
   transcription |-> Absent, summary |-> Absent]

\* the state at server start, but for the ffmpeg-static export
InitLocals ==
  /\ now = 0
  /\ files = [p \in Paths |-> NoFile]
  /\ pc = [r \in Reqs |-> "idle"]
  /\ videoPath = [r \in Reqs |-> NoPath]
  /\ audioPath = [r \in Reqs |-> NoPath]
  /\ audioBuffer = [r \in Reqs |-> NoBuffer]
  /\ transcription = [r \in Reqs |-> Undefined]
  /\ summary = [r \in Reqs |-> Undefined]
  /\ prompt = [r \in Reqs |-> <<>>]
  /\ error = [r \in Reqs |-> Undefined]
  /\ response = [r \in Reqs |-> NoResponse]
  /\ trace = [r \in Reqs |-> <<>>]
  /\ asrRes = [r \in Reqs |-> NoAsrRes]
  /\ ffmpegBin = [r \in Reqs |-> Undefined]
  /\ ff = [r \in Reqs |-> Undefined]
  /\ execd = [r \in Reqs |-> <<>>]
  /\ drawn = {}
  /\ clash = FALSE

\* the deployed image (Dockerfile: node:18-bullseye) has a bundled binary
Init == ffmpegStatic = Bundled /\ InitLocals

Log(r, op, outcome) == trace' = [trace EXCEPT ![r] = Append(@, <<op, outcome>>)]

\* fs.unlink(p).catch(() => {}): the file goes when the unlink succeeds; a
\* missing file, or a failing unlink, leaves the directory as it is
Unlink(p, ok) ==
  /\ ok => files[p] # NoFile
  /\ files' = IF ok THEN [files EXCEPT ![p] = NoFile] ELSE files

\* mutant: the bundled binary is preferred to the override
ResolveStaticFirst(bin, static) ==
  IF Truthy(static) THEN static ELSE IF Truthy(bin) THEN bin ELSE Str(<<"ffmpeg">>)

\* processVideo.js lines 34-35: ffmpegBin || ffmpegStatic || "ffmpeg"
Resolve(bin, static) ==
  LET or1 == IF Truthy(bin) THEN bin ELSE static
      or2 == IF Truthy(or1) THEN or1 ELSE Str(<<"ffmpeg">>)
  IN IF ~Truthy(or2) THEN Str(<<"ffmpeg">>) ELSE or2

\* the second argument of processVideoFile: server.js line 91 passes none;
\* another caller may pass a path, or an empty string
HandlerBins == {Undefined}
CallerBins == {Undefined, Str(<<"/opt/ffmpeg/bin/ffmpeg">>), Str(<<>>)}

\* mutant: the unlink is awaited without .catch(() => {})
UnlinkSettledNoCatch(ok) == ok

\* the promise fs.unlink(p).catch(() => {}) is fulfilled whether or not the
\* unlink succeeded
UnlinkSettled(ok) == TRUE

\* what an unlink rejects with
UnlinkError == Err(<<"EPERM: operation not permitted, unlink">>)

\* ------------------------------------------------- where each stage goes on
\* mutants: the probe's failure is only logged; a failed ASR call is retried,
\* is swallowed, or skips the catch block's unlink; a failed summarization
\* leaves the summary empty
AfterCheckLogOnly(ok) == "extract"
AfterAsrRetry(ok) == IF ok THEN "summarize" ELSE "asr"
AfterAsrSwallow(ok) == "summarize"
AfterAsrNoUnlink(ok) == IF ok THEN "summarize" ELSE "catch"

\* mutant: a failed read throws without unlinking the audio
AfterReadNoUnlink(ok) == IF ok THEN "asr" ELSE "catch"

\* mutant: a failed write of the upload ends the handler at once
AfterWriteNoCleanup(ok) == IF ok THEN "check" ELSE "done"

\* processVideo.js lines 39-44
AfterCheck(ok) == IF ok THEN "extract" ELSE "catch"
\* processVideo.js lines 48-55
AfterExtract(ok) == IF ok THEN "read" ELSE "catch"
\* processVideo.js lines 59-64
AfterRead(ok) == IF ok THEN "asr" ELSE "readFailed"
\* processVideo.js lines 68-115
AfterAsr(ok) == IF ok THEN "summarize" ELSE "asrFailed"
\* server.js lines 86-95
AfterWrite(ok) == IF ok THEN "check" ELSE "catch"

\* ---------------------------------------------------------------- actions
\* the clock advances
Tick ==
  /\ now < MaxTime
  /\ now' = now + 1
  /\ drawn' = {}
  /\ UNCHANGED <<files, pc, videoPath, audioPath, audioBuffer, transcription,
                 summary, prompt, error, response, trace, asrRes, ffmpegStatic, ffmpegBin, ff, execd, clash>>

\* server.js lines 78-87: a request arrives (the handler's locals are fresh);
\* without a file it is answered 400, with one the path is chosen and the
\* write started
Receive(r, hasFile) ==
  /\ pc[r] \in {"idle", "done"}
  /\ videoPath' = [videoPath EXCEPT ![r] = IF hasFile THEN VideoPathAt(now) ELSE NoPath]
  /\ drawn' = IF hasFile THEN drawn \cup {"upload"} ELSE drawn
  /\ clash' = (clash \/ (hasFile /\ "upload" \in drawn))
  /\ pc' = [pc EXCEPT ![r] = IF hasFile THEN "write" ELSE "done"]
  /\ response' = [response EXCEPT ![r] = IF hasFile THEN NoResponse ELSE Response400]
  /\ audioPath' = [audioPath EXCEPT ![r] = NoPath]
  /\ audioBuffer' = [audioBuffer EXCEPT ![r] = NoBuffer]
  /\ transcription' = [transcription EXCEPT ![r] = Undefined]
  /\ summary' = [summary EXCEPT ![r] = Undefined]
  /\ prompt' = [prompt EXCEPT ![r] = <<>>]
  /\ error' = [error EXCEPT ![r] = Undefined]
  /\ trace' = [trace EXCEPT ![r] = <<>>]
  /\ asrRes' = [asrRes EXCEPT ![r] = NoAsrRes]
  /\ ffmpegBin' = [ffmpegBin EXCEPT ![r] = Undefined]
  /\ ff' = [ff EXCEPT ![r] = Undefined]
  /\ execd' = [execd EXCEPT ![r] = <<>>]
  /\ UNCHANGED <<now, files, ffmpegStatic>>

\* server.js line 87 completes; on success processVideoFile starts, chooses
\* audioPath (lines 30-31), resolves the binary (lines 33-35) and launches the
\* ffmpeg probe (line 40); bin is the ffmpegBin the caller passes
WriteVideo(r, outcome, bin) ==
  /\ pc[r] = "write"
  /\ outcome \in {"ok", "fail", "partial"}
  /\ files' = CASE outcome = "ok" -> [files EXCEPT ![videoPath[r]] = <<"mp4", Marker(r)>>]
                [] outcome = "partial" -> [files EXCEPT ![videoPath[r]] = <<"partial", Marker(r)>>]
                [] OTHER -> files
  /\ IF outcome = "ok"
     THEN /\ audioPath' = [audioPath EXCEPT ![r] = AudioPathAt(now)]
          /\ drawn' = drawn \cup {"audio"}
          /\ clash' = (clash \/ "audio" \in drawn)
          /\ ffmpegBin' = [ffmpegBin EXCEPT ![r] = bin]
          /\ ff' = [ff EXCEPT ![r] = Resolve(bin, ffmpegStatic)]
          /\ UNCHANGED error
     ELSE /\ error' = [error EXCEPT ![r] = Err(<<"ENOSPC: no space left on device, write">>)]
          /\ UNCHANGED <<audioPath, ffmpegBin, ff, drawn, clash>>
  /\ pc' = [pc EXCEPT ![r] = AfterWrite(outcome = "ok")]
  /\ Log(r, "write", outcome)
  /\ UNCHANGED <<now, videoPath, audioBuffer, transcription, summary, prompt, response, asrRes, ffmpegStatic, execd>>

\* processVideo.js lines 38-44: "<ff>" -version under a 5 s timeout
CheckFfmpeg(r, ok) ==
  /\ pc[r] = "check"
  /\ pc' = [pc EXCEPT ![r] = AfterCheck(ok)]
  /\ error' = [error EXCEPT ![r] =
       IF ok THEN @ ELSE Err(<<"ffmpeg not found or not executable: ">> \o ToStr(ff[r]))]
  /\ Log(r, "check", IF ok THEN "ok" ELSE "fail")
  /\ execd' = [execd EXCEPT ![r] = Append(@, ff[r])]
  /\ UNCHANGED <<now, files, videoPath, audioPath, audioBuffer, transcription,
                 summary, prompt, response, asrRes, ffmpegStatic, ffmpegBin, ff, drawn, clash>>

\* processVideo.js lines 46-55: ffmpeg -y -i videoPath ... audioPath.  It
\* succeeds only on a readable video; when it fails it may already have
\* written part of the output.
ExtractAudio(r, outcome) ==
  /\ pc[r] = "extract"
  /\ outcome \in {"ok", "fail", "partial"}
  /\ outcome \in {"ok", "partial"} => files[videoPath[r]][1] = "mp4"
  /\ files' = CASE outcome = "ok" ->
                     [files EXCEPT ![audioPath[r]] = <<"wav", files[videoPath[r]][2]>>]
                [] outcome = "partial" ->
                     [files EXCEPT ![audioPath[r]] = <<"partial", files[videoPath[r]][2]>>]
                [] OTHER -> files
  /\ pc' = [pc EXCEPT ![r] = AfterExtract(outcome = "ok")]
  /\ error' = [error EXCEPT ![r] =
       IF outcome = "ok" THEN @ ELSE Err(<<"ffmpeg failed: ", "Conversion failed!">>)]
  /\ Log(r, "extract", outcome)
  /\ execd' = [execd EXCEPT ![r] = Append(@, ff[r])]
  /\ UNCHANGED <<now, videoPath, audioPath, audioBuffer, transcription, summary,
                 prompt, response, asrRes, ffmpegStatic, ffmpegBin, ff, drawn, clash>>

\* processVideo.js lines 57-61: readFile(audioPath)
ReadAudio(r, ok) ==
  /\ pc[r] = "read"
  /\ ok => files[audioPath[r]] # NoFile
  /\ audioBuffer' = [audioBuffer EXCEPT ![r] = IF ok THEN files[audioPath[r]] ELSE @]
  /\ error' = [error EXCEPT ![r] =
       IF ok THEN @ ELSE Err(<<"ENOENT: no such file or directory, open">>)]
  /\ pc' = [pc EXCEPT ![r] = AfterRead(ok)]
  /\ Log(r, "read", IF ok THEN "ok" ELSE "fail")
  /\ UNCHANGED <<now, files, videoPath, audioPath, transcription, summary,
                 prompt, response, asrRes, ffmpegStatic, ffmpegBin, ff, execd, drawn, clash>>

\* processVideo.js lines 62-63: the read failed; unlink the audio, then throw
UnlinkAudioReadFailed(r, ok) ==
  /\ pc[r] = "readFailed"
  /\ Unlink(audioPath[r], ok)
  /\ error' = [error EXCEPT ![r] =
       IF UnlinkSettled(ok) THEN Err(<<"Failed to read audio: ">> \o ErrMessage(@))
       ELSE UnlinkError]
  /\ pc' = [pc EXCEPT ![r] = "catch"]
  /\ Log(r, "unlinkAudio", IF ok THEN "ok" ELSE "fail")
  /\ UNCHANGED <<now, videoPath, audioPath, audioBuffer, transcription, summary,
                 prompt, response, asrRes, ffmpegStatic, ffmpegBin, ff, execd, drawn, clash>>

\* what fetch + res.text() can deliver for an audio whose speech is m
AsrResponses(m) ==
  { [fail |-> TRUE, ok |-> FALSE, raw |-> <<>>],
    [fail |-> FALSE, ok |-> FALSE, raw |-> <<"Model is overloaded">>] }
  \cup { [fail |-> FALSE, ok |-> TRUE, raw |-> b] : b \in AsrBodies(m) }

\* processVideo.js lines 73-110 for the response res
AsrResult(res, docs) ==
  IF res.fail THEN Throw(Err(<<"request to api-inference.huggingface.co failed">>))
  ELSE IF ~res.ok THEN Throw(AsrHttpError(res.raw))
  ELSE NormalizeAsr(res.raw, docs)

\* processVideo.js lines 66-110: the ASR request and its normalisation
CallASR(r, res) ==
  /\ pc[r] = "asr"
  /\ asrRes' = [asrRes EXCEPT ![r] = res]
  /\ LET docs == AsrDocs(audioBuffer[r][2])
         out == AsrResult(res, docs)
     IN /\ transcription' = [transcription EXCEPT ![r] =
               IF ~res.fail /\ res.ok THEN PickTranscription(ParseAsr(res.raw, docs))
               ELSE Str(<<>>)]
        /\ error' = [error EXCEPT ![r] = IF IsOk(out) THEN @ ELSE out[2]]
        /\ pc' = [pc EXCEPT ![r] = AfterAsr(IsOk(out))]
        /\ Log(r, "asr", IF IsOk(out) THEN "ok" ELSE "fail")
  /\ UNCHANGED <<now, files, videoPath, audioPath, audioBuffer, summary, prompt,
                 response, ffmpegStatic, ffmpegBin, ff, execd, drawn, clash>>

\* processVideo.js lines 111-115: the ASR catch block
UnlinkAudioAsrFailed(r, ok) ==
  /\ pc[r] = "asrFailed"
  /\ Unlink(audioPath[r], ok)
  /\ error' = [error EXCEPT ![r] = IF UnlinkSettled(ok) THEN AsrFailed(@) ELSE UnlinkError]
  /\ pc' = [pc EXCEPT ![r] = "catch"]
  /\ Log(r, "unlinkAudio", IF ok THEN "ok" ELSE "fail")
  /\ UNCHANGED <<now, videoPath, audioPath, audioBuffer, transcription, summary,
                 prompt, response, asrRes, ffmpegStatic, ffmpegBin, ff, execd, drawn, clash>>

\* processVideo.js lines 117-143: the chatCompletion call and its normalisation
Summarize(r, o) ==
  /\ pc[r] = "summarize"
  /\ prompt' = [prompt EXCEPT ![r] = Prompt(transcription[r])]
  /\ summary' = [summary EXCEPT ![r] = NormalizeSummary(o)]
  /\ pc' = [pc EXCEPT ![r] = "cleanup"]
  /\ Log(r, "summarize", IF IsOk(o) THEN "ok" ELSE "fail")
  /\ UNCHANGED <<now, files, videoPath, audioPath, audioBuffer, transcription,
                 error, response, asrRes, ffmpegStatic, ffmpegBin, ff, execd, drawn, clash>>

\* processVideo.js lines 145-148: unlink the audio and return the result
CleanupAudio(r, ok) ==
  /\ pc[r] = "cleanup"
  /\ Unlink(audioPath[r], ok)
  /\ pc' = [pc EXCEPT ![r] = IF UnlinkSettled(ok) THEN "returned" ELSE "catch"]
  /\ error' = [error EXCEPT ![r] = IF UnlinkSettled(ok) THEN @ ELSE UnlinkError]
  /\ Log(r, "unlinkAudio", IF ok THEN "ok" ELSE "fail")
  /\ UNCHANGED <<now, videoPath, audioPath, audioBuffer, transcription, summary,
                 prompt, response, asrRes, ffmpegStatic, ffmpegBin, ff, execd, drawn, clash>>

\* server.js lines 92-94: unlink the video and answer 200 (a rejection inside
\* the try block would go to the catch block)
RespondOk(r, ok) ==
  /\ pc[r] = "returned"
  /\ Unlink(videoPath[r], ok)
  /\ response' = [response EXCEPT ![r] =
       IF UnlinkSettled(ok) THEN Response200(transcription[r], summary[r]) ELSE @]
  /\ pc' = [pc EXCEPT ![r] = IF UnlinkSettled(ok) THEN "done" ELSE "catch"]
  /\ error' = [error EXCEPT ![r] = IF UnlinkSettled(ok) THEN @ ELSE UnlinkError]
  /\ Log(r, "unlinkVideo", IF ok THEN "ok" ELSE "fail")
  /\ UNCHANGED <<now, videoPath, audioPath, audioBuffer, transcription, summary,
                 prompt, asrRes, ffmpegStatic, ffmpegBin, ff, execd, drawn, clash>>

\* server.js lines 95-100: unlink the video and answer 500 (a rejection inside
\* the catch block would leave the handler's promise rejected and the request
\* unanswered)
RespondError(r, ok) ==
  /\ pc[r] = "catch"
  /\ Unlink(videoPath[r], ok)
  /\ response' = [response EXCEPT ![r] = IF UnlinkSettled(ok) THEN Response500(error[r]) ELSE @]
  /\ pc' = [pc EXCEPT ![r] = IF UnlinkSettled(ok) THEN "done" ELSE "unhandled"]
  /\ Log(r, "unlinkVideo", IF ok THEN "ok" ELSE "fail")
  /\ UNCHANGED <<now, videoPath, audioPath, audioBuffer, transcription, summary,
                 prompt, error, asrRes, ffmpegStatic, ffmpegBin, ff, execd, drawn, clash>>

\* the responses of a healthy or a failing ASR service
AsrPlain(m) ==
  { [fail |-> TRUE, ok |-> FALSE, raw |-> <<>>],
    [fail |-> FALSE, ok |-> FALSE, raw |-> <<"Model is overloaded">>],
    [fail |-> FALSE, ok |-> TRUE, raw |-> JSONText(Obj(<< <<"text", Str(<<m>>)>> >>))] }

\* the outcomes of a chatCompletion call, in every shape
SumOutcomes(p) == {Ok(v) : v \in SumOuts(p)} \cup {Throw(e) : e \in SumErrors}

\* the outcomes of a healthy or a failing summarization service
SumPlain(p) ==
  { Ok(Choice(Obj(<< <<"message", Obj(<< <<"content", Str(<<"summary of: ">> \o p)>> >>)>> >>))),
    Throw(Err(<<"HTTP 503">>)) }

\* the outcomes the disk allows: every one when it can fail, else only the ones
\* that follow from the files that exist (an unlink fails on a missing file)
WriteOutcomes(faulty) == IF faulty THEN {"ok", "fail", "partial"} ELSE {"ok"}
Exists(p) == p \in Paths /\ files[p] # NoFile
ReadOutcomes(p, faulty) == IF faulty THEN BOOLEAN ELSE {Exists(p)}
UnlinkOutcomes(p, faulty) == IF faulty THEN BOOLEAN ELSE {Exists(p)}

\* what the services answer: every shape, or a plain answer or failure
AsrInputs(m, shapes) == IF shapes THEN AsrResponses(m) ELSE AsrPlain(m)
SumInputs(p, shapes) == IF shapes THEN SumOutcomes(p) ELSE SumPlain(p)

\* the steps of a request r that has been received: each is the completion of
\* the await it is suspended at; the services answer in every shape when
\* shapes, the disk can fail when faulty
Run(r, shapes, faulty, bins) ==
  \/ \E outcome \in WriteOutcomes(faulty), bin \in bins : WriteVideo(r, outcome, bin)
  \/ \E ok \in BOOLEAN : CheckFfmpeg(r, ok)
  \/ \E outcome \in {"ok", "fail", "partial"} : ExtractAudio(r, outcome)
  \/ \E ok \in ReadOutcomes(audioPath[r], faulty) : ReadAudio(r, ok)
  \/ \E ok \in UnlinkOutcomes(audioPath[r], faulty) : UnlinkAudioReadFailed(r, ok)
  \/ \E res \in AsrInputs(audioBuffer[r][2], shapes) : CallASR(r, res)
  \/ \E ok \in UnlinkOutcomes(audioPath[r], faulty) : UnlinkAudioAsrFailed(r, ok)
  \/ \E o \in SumInputs(Prompt(transcription[r]), shapes) : Summarize(r, o)
  \/ \E ok \in UnlinkOutcomes(audioPath[r], faulty) : CleanupAudio(r, ok)
  \/ \E ok \in UnlinkOutcomes(videoPath[r], faulty) : RespondOk(r, ok)
  \/ \E ok \in UnlinkOutcomes(videoPath[r], faulty) : RespondError(r, ok)

\* the steps of request r
Handle(r, shapes, faulty, bins) ==
  \/ \E hasFile \in BOOLEAN : Receive(r, hasFile)
  \/ Run(r, shapes, faulty, bins)

\* one request after another; the services answer in every shape and every
\* disk operation can fail
Next == Tick \/ Handle(1, TRUE, TRUE, HandlerBins)

Spec == Init /\ [][Next]_vars

\* every await of the request eventually settles and the event loop resumes it
FairSpec == Spec /\ WF_vars(Run(1, TRUE, TRUE, HandlerBins))

\* processVideoFile called with any ffmpegBin, ffmpeg-static exporting a path
\* or null (a platform without a bundled binary)
LibInit == ffmpegStatic \in {Bundled, Null} /\ InitLocals
LibNext == Tick \/ Handle(1, FALSE, TRUE, CallerBins)
LibSpec == LibInit /\ [][LibNext]_vars

\* requests in flight together, each at its own await, on a healthy disk
ConcNext == Tick \/ \E r \in Reqs : Handle(r, FALSE, FALSE, HandlerBins)

ConcSpec == Init /\ [][ConcNext]_vars

\* ------------------------------------------------------------ properties
\* what a request has done so far, read off its trace
Did(r, op, outcome) == \E i \in 1..Len(trace[r]) : trace[r][i] = <<op, outcome>>
Calls(r, op) == Cardinality({i \in 1..Len(trace[r]) : trace[r][i][1] = op})
Pos(r, op) == CHOOSE i \in 1..Len(trace[r]) : trace[r][i][1] = op
Wrote(r, op) == Did(r, op, "ok") \/ Did(r, op, "partial")
Created(r) ==
  (IF Wrote(r, "write") THEN {videoPath[r]} ELSE {})
    \cup (IF Wrote(r, "extract") THEN {audioPath[r]} ELSE {})
Unlinked(r) ==
  (IF Calls(r, "unlinkVideo") > 0 THEN {videoPath[r]} ELSE {})
    \cup (IF Calls(r, "unlinkAudio") > 0 THEN {audioPath[r]} ELSE {})
ExtractFailed(r) == Did(r, "extract", "fail") \/ Did(r, "extract", "partial")
Answered(r) == pc[r] = "done"
InFlight(r) == pc[r] \notin {"idle", "done"}

\* C1: when a request has been answered, every temp file it created has had
\* a deletion performed on it, and if its deletions succeeded none of them is
\* left in the temp directory
C1_EveryCreatedFileDeleted ==
  \A r \in Reqs : Answered(r) =>
    /\ Created(r) \subseteq Unlinked(r)
    /\ (~Did(r, "unlinkVideo", "fail") /\ ~Did(r, "unlinkAudio", "fail"))
         => \A p \in Created(r) : ~Exists(p)

\* C2: when a request whose extraction failed has been answered, a deletion
\* of the video has been performed, no file is at its audio path, and neither
\* service has been called
C2_ExtractionFailureLeavesNothing ==
  \A r \in Reqs : (Answered(r) /\ ExtractFailed(r)) =>
    /\ Calls(r, "unlinkVideo") = 1
    /\ ~Exists(audioPath[r])
    /\ Calls(r, "asr") = 0
    /\ Calls(r, "summarize") = 0

\* C3: two requests in flight never use the same video path or the same audio
\* path, and a 200 answer carries the speech of the request's own upload
C3_NoPathCollision ==
  /\ \A r1, r2 \in Reqs : (r1 # r2 /\ InFlight(r1) /\ InFlight(r2)) =>
       /\ videoPath[r1] # videoPath[r2]
       /\ audioPath[r1] # NoPath => audioPath[r1] # audioPath[r2]
  /\ \A r \in Reqs : response[r].status = 200 =>
       response[r].transcription = Str(<<Marker(r)>>)

\* C4: when the summarization call failed after a successful ASR call, the
\* answer is 200, carries the transcription the ASR stage produced, and its
\* summary is the string "Error generating summary: " followed by a cause
C4_SummaryFailureDegrades ==
  \A r \in Reqs : (Answered(r) /\ Did(r, "asr", "ok") /\ Did(r, "summarize", "fail")) =>
    /\ response[r].status = 200
    /\ response[r].error = Absent
    /\ response[r].transcription = transcription[r]
    /\ IsString(response[r].summary)
    /\ Len(response[r].summary[2]) > 1
    /\ Head(response[r].summary[2]) = "Error generating summary: "

C4_Witness ==
  \E r \in Reqs : Answered(r) /\ Did(r, "asr", "ok") /\ Did(r, "summarize", "fail")
    /\ response[r].transcription = Str(<<Marker(r)>>)

\* C5: once the ASR call has failed the summarization service is never
\* called, and the answer is 500 with an error string and no transcription
C5_AsrFailureIsFatal ==
  \A r \in Reqs : Did(r, "asr", "fail") =>
    /\ Calls(r, "summarize") = 0
    /\ pc[r] \in {"asrFailed", "catch", "done"}
    /\ Answered(r) =>
         /\ response[r].status = 500
         /\ IsString(response[r].error)
         /\ response[r].transcription = Absent
         /\ response[r].summary = Absent

C5_Witness == \E r \in Reqs : Answered(r) /\ Did(r, "asr", "fail")

\* C6: once the ffmpeg probe has failed, the extraction command is never run,
\* neither service is ever called, and the answer is 500
C6_ProbeFailureStopsPipeline ==
  \A r \in Reqs : Did(r, "check", "fail") =>
    /\ Calls(r, "extract") = 0
    /\ Calls(r, "asr") = 0
    /\ Calls(r, "summarize") = 0
    /\ Answered(r) => (response[r].status = 500 /\ IsString(response[r].error))

C6_Witness == \E r \in Reqs : Answered(r) /\ Did(r, "check", "fail")

\* C7 as stated: when the probe has failed the request has written no temp
\* file at all
C7_ProbeBeforeAnyArtifact ==
  \A r \in Reqs : Did(r, "check", "fail") => Created(r) = {}

\* C7 as amended: the probe runs after the video has been saved and before
\* any audio is written; when it fails the request never writes an audio
\* file and a deletion of the saved video is performed before the answer
C7_ProbeBeforeAudioOnly ==
  \A r \in Reqs :
    /\ Calls(r, "check") > 0 => (Did(r, "write", "ok") /\ Pos(r, "write") < Pos(r, "check"))
    /\ Calls(r, "extract") > 0 => (Did(r, "check", "ok") /\ Pos(r, "check") < Pos(r, "extract"))
    /\ Did(r, "check", "fail") =>
         /\ Created(r) = {videoPath[r]}
         /\ Answered(r) => Unlinked(r) = {videoPath[r]}

C7_Witness ==
  \E r \in Reqs : Answered(r) /\ Did(r, "check", "fail") /\ Did(r, "unlinkVideo", "ok")

\* C8: a 200 answer has a string under transcription and a string under
\* summary
C8_BothFieldsAreStrings ==
  \A r \in Reqs : response[r].status = 200 =>
    (IsString(response[r].transcription) /\ IsString(response[r].summary))

\* C9 as stated: no file is at the audio path while the summarization call
\* is in flight
C9_NoAudioDuringSummarization ==
  \A r \in Reqs : pc[r] = "summarize" => ~Exists(audioPath[r])

\* C9 as amended: after a failed ASR call the audio deletion is performed
\* before the error reaches the handler; after a successful one it is
\* performed only once the summarization call has completed, before the
\* result is returned, so none has been performed while that call is in flight
C9_AudioDeletedAfterSummarization ==
  \A r \in Reqs :
    /\ pc[r] \in {"asr", "asrFailed", "summarize", "cleanup"} => Calls(r, "unlinkAudio") = 0
    /\ (Did(r, "asr", "fail") /\ pc[r] \in {"catch", "done"}) =>
         (Calls(r, "unlinkAudio") = 1 /\ Pos(r, "asr") < Pos(r, "unlinkAudio"))
    /\ (Did(r, "asr", "ok") /\ pc[r] \in {"returned", "done"}) =>
         (Calls(r, "unlinkAudio") = 1 /\ Pos(r, "summarize") < Pos(r, "unlinkAudio"))

C9_Witness ==
  \E r \in Reqs : pc[r] = "summarize" /\ Exists(audioPath[r])
    /\ files[audioPath[r]] = <<"wav", Marker(r)>>

\* C10: the stages of a request run in order and at most once each: the ASR
\* call only after a successful extraction and read, the summarization call
\* only after a successful ASR call, and exactly one ASR request is sent once
\* the audio has been read
Stages == <<"write", "check", "extract", "read", "asr", "summarize">>
C10_StagesInOrderOnce ==
  \A r \in Reqs :
    /\ \A i \in 1..Len(Stages) : Calls(r, Stages[i]) <= 1
    /\ \A i \in 2..Len(Stages) : Calls(r, Stages[i]) = 1 =>
         /\ Did(r, Stages[i - 1], "ok")
         /\ Pos(r, Stages[i - 1]) < Pos(r, Stages[i])
    /\ pc[r] = "asr" => (Did(r, "read", "ok") /\ Calls(r, "asr") = 0)
    /\ (Did(r, "read", "ok") /\ pc[r] # "asr") => Calls(r, "asr") = 1
    /\ pc[r] = "summarize" => (Did(r, "asr", "ok") /\ Calls(r, "summarize") = 0)

C10_Witness ==
  \E r \in Reqs : Answered(r) /\ \A i \in 1..Len(Stages) : Calls(r, Stages[i]) = 1

\* the ASR call of r has answered OK with a body that has no transcript field:
\* an empty body, or a JSON object or array without text and transcription
AsrLacksTranscript(r) ==
  /\ Calls(r, "asr") = 1 /\ ~asrRes[r].fail /\ asrRes[r].ok
  /\ LET doc == ParseAsr(asrRes[r].raw, AsrDocs(audioBuffer[r][2])) IN
       \/ asrRes[r].raw = <<>>
       \/ /\ Tag(doc) \in {"obj", "arr"}
          /\ Get(doc, "text") = Undefined
          /\ Get(doc, "transcription") = Undefined
          /\ OptGet(First(doc), "text") = Undefined

\* C11 as stated: an OK ASR response without a transcript field does not make
\* the stage raise and gives the empty string as transcription
C11_MissingFieldGivesEmpty ==
  \A r \in Reqs : AsrLacksTranscript(r) =>
    (Did(r, "asr", "ok") /\ transcription[r] = Str(<<>>))

\* C11 as amended: such a response does not make the stage raise; the
\* transcription is the empty string for an empty body and the JSON text of
\* the response for an object or array without the field
C11_MissingFieldGivesJsonText ==
  \A r \in Reqs : AsrLacksTranscript(r) =>
    /\ Did(r, "asr", "ok")
    /\ transcription[r] = Str(asrRes[r].raw)

C11_Witness ==
  \E r \in Reqs : AsrLacksTranscript(r) /\ pc[r] = "summarize"
    /\ transcription[r] = Str(<<"{", "}">>)

\* the error of the first stage of r that failed, as the handler catches it
StageError(r) ==
  IF ~Did(r, "write", "ok") THEN Err(<<"ENOSPC: no space left on device, write">>)
  ELSE IF Did(r, "check", "fail")
       THEN Err(<<"ffmpeg not found or not executable: ">> \o ToStr(ff[r]))
  ELSE IF ExtractFailed(r) THEN Err(<<"ffmpeg failed: ", "Conversion failed!">>)
  ELSE IF Did(r, "read", "fail")
       THEN Err(<<"Failed to read audio: ", "ENOENT: no such file or directory, open">>)
  ELSE AsrFailed(AsrResult(asrRes[r], AsrDocs(audioBuffer[r][2]))[2])

\* the answer the stages of r determine, whatever its unlinks did
StageResponse(r) ==
  IF videoPath[r] = NoPath THEN Response400
  ELSE IF Calls(r, "summarize") = 1 THEN Response200(transcription[r], summary[r])
  ELSE Response500(StageError(r))

\* C12: the answer of a request is the one its stages determine, whether its
\* unlinks succeeded or failed; no unlink error is in it
C12_UnlinkFailureChangesNothing ==
  \A r \in Reqs : Answered(r) =>
    /\ response[r] = StageResponse(r)
    /\ response[r].error # Str(ToStr(UnlinkError))

C12_Witness ==
  \E r \in Reqs : Answered(r) /\ response[r].status = 200
    /\ Did(r, "unlinkAudio", "fail") /\ Did(r, "unlinkVideo", "fail")
    /\ Exists(audioPath[r]) /\ Exists(videoPath[r])

\* a stage of r failed fatally
FatalFailure(r) ==
  \/ Calls(r, "write") = 1 /\ ~Did(r, "write", "ok")
  \/ Did(r, "check", "fail")
  \/ ExtractFailed(r)
  \/ Did(r, "read", "fail")
  \/ Did(r, "asr", "fail")

\* C13 (the answer): a request has an answer exactly when it is done; it is
\* 400 "video file required" exactly when no file was uploaded, and then no
\* stage has run; 500 with an error string exactly when a stage failed
\* fatally; 200 with a transcription and a summary otherwise
C13_AnswerByOutcome ==
  \A r \in Reqs :
    /\ Answered(r) <=> response[r].status # 0
    /\ Answered(r) =>
         /\ response[r].status = 400 <=> videoPath[r] = NoPath
         /\ response[r].status = 400 =>
              (response[r] = Response400 /\ trace[r] = <<>> /\ audioPath[r] = NoPath)
         /\ response[r].status = 500 <=> FatalFailure(r)
         /\ response[r].status = 500 => IsString(response[r].error)
         /\ response[r].status = 200 <=> (videoPath[r] # NoPath /\ ~FatalFailure(r))
         /\ response[r].status = 200 =>
              /\ response[r].error = Absent
              /\ response[r].transcription # Absent
              /\ response[r].summary # Absent

\* C13 (the answer comes): under FairSpec every request in flight is
\* eventually answered, and an answer, once sent, stays until the slot takes
\* the next request
C13_EveryRequestAnswered ==
  /\ \A r \in Reqs : InFlight(r) ~> Answered(r)
  /\ [][\A r \in Reqs : (Answered(r) /\ response'[r] # response[r]) => trace'[r] = <<>>]_vars

\* v is a configured path: a non-empty string
IsPath(v) == IsString(v) /\ Len(v[2]) > 0

\* C14: the binary a request resolves is the override when one is given,
\* else the bundled binary when there is one, else "ffmpeg"; the probe and the
\* extraction both run the resolved binary
C14_BinaryResolutionOrder ==
  \A r \in Reqs : Did(r, "write", "ok") =>
    /\ ff[r] = IF IsPath(ffmpegBin[r]) THEN ffmpegBin[r]
               ELSE IF IsPath(ffmpegStatic) THEN ffmpegStatic
               ELSE Str(<<"ffmpeg">>)
    /\ Len(execd[r]) = Calls(r, "check") + Calls(r, "extract")
    /\ \A i \in 1..Len(execd[r]) : execd[r][i] = ff[r]

C14_Witness ==
  \E r \in Reqs : IsPath(ffmpegBin[r]) /\ IsPath(ffmpegStatic)
    /\ Calls(r, "check") = 1 /\ Calls(r, "extract") = 1
    /\ execd[r] = <<ffmpegBin[r], ffmpegBin[r]>>

\* the diagnostic class of the error r failed with: the head of its message
ErrorClass(r) == IF Tag(error[r]) = "err" /\ Len(error[r][2]) > 0
                 THEN error[r][2][1] ELSE "none"

\* C15: when the extraction succeeded and the read of the audio failed, no
\* service is ever called, one unlink of the audio path is attempted right
\* after the read and before the error reaches the handler, and the request
\* fails with the class "Failed to read audio: ", which no other failure has
C15_ReadFailureIsItsOwnClass ==
  \A r \in Reqs :
    /\ Did(r, "read", "fail") =>
         /\ Did(r, "extract", "ok")
         /\ Calls(r, "asr") = 0 /\ Calls(r, "summarize") = 0
         /\ pc[r] \in {"readFailed", "catch", "done"}
         /\ pc[r] \in {"catch", "done"} =>
              /\ Calls(r, "unlinkAudio") = 1
              /\ Pos(r, "unlinkAudio") = Pos(r, "read") + 1
              /\ ErrorClass(r) = "Failed to read audio: "
         /\ Answered(r) =>
              /\ response[r].status = 500
              /\ SubSeq(response[r].error[2], 1, 2) = <<"Error: ", "Failed to read audio: ">>
    /\ pc[r] \in {"catch", "done"} /\ ~Did(r, "read", "fail") =>
         ErrorClass(r) # "Failed to read audio: "
    /\ ExtractFailed(r) /\ pc[r] \in {"catch", "done"} =>
         ErrorClass(r) = "ffmpeg failed: "
    /\ Did(r, "check", "fail") /\ pc[r] \in {"catch", "done"} =>
         ErrorClass(r) = "ffmpeg not found or not executable: "

C15_Witness ==
  \E r \in Reqs : Answered(r) /\ Did(r, "extract", "ok") /\ Did(r, "read", "fail")
    /\ Did(r, "unlinkAudio", "ok") /\ response[r].status = 500

\* the files r has named so far
OwnPaths(r) == {videoPath[r], audioPath[r]} \ {NoPath}

\* C16: as long as no two uploads took the same millisecond and no two audios
\* took the same millisecond, the requests in flight name different files, a
\* name is fresh when a request takes it, a file under a request's name was
\* written by that request and is there until that request deletes it, and
\* what a request read and answers is its own
C16_DistinctStampsNoInterference ==
  ~clash =>
    /\ \A r1, r2 \in Reqs : (r1 # r2 /\ InFlight(r1) /\ InFlight(r2)) =>
         OwnPaths(r1) \cap OwnPaths(r2) = {}
    /\ \A r \in Reqs : InFlight(r) =>
         /\ audioPath[r] # videoPath[r]
         /\ pc[r] = "write" => files[videoPath[r]] = NoFile
         /\ pc[r] \in {"check", "extract"} => files[audioPath[r]] = NoFile
         /\ \A p \in OwnPaths(r) : files[p] = NoFile \/ files[p][2] = Marker(r)
         /\ audioBuffer[r] = NoBuffer \/ audioBuffer[r][2] = Marker(r)
         /\ Exists(videoPath[r]) <=> Wrote(r, "write")
         /\ Exists(audioPath[r]) <=> (Wrote(r, "extract") /\ ~Did(r, "unlinkAudio", "ok"))
    /\ \A r \in Reqs : response[r].status = 200 =>
         response[r].transcription = Str(<<Marker(r)>>)

C16_Witness ==
  /\ ~clash
  /\ \E r1, r2 \in Reqs : r1 # r2
       /\ pc[r1] = "summarize" /\ pc[r2] = "summarize"
       /\ videoPath[r1][2] # videoPath[r2][2] /\ audioPath[r1][2] # audioPath[r2][2]
       /\ Exists(audioPath[r1]) /\ Exists(audioPath[r2])

\* processVideoFile has been called for r
Invoked(r) == audioPath[r] # NoPath

\* the last operation of a processVideoFile call that has returned or thrown
Settled(e) ==
  \/ e[1] = "unlinkAudio"
  \/ e = <<"check", "fail">>
  \/ e[1] = "extract" /\ e[2] # "ok"

\* C17: a request with a file unlinks its video once, as the last thing before
\* it is answered and, when processVideoFile was called, after that call
\* returned or threw; when the write of the video fails processVideoFile is
\* not called, the unlink is still attempted and the answer is 500
C17_VideoUnlinkedOnceAtTheEnd ==
  \A r \in Reqs :
    /\ InFlight(r) => Calls(r, "unlinkVideo") = 0
    /\ (Answered(r) /\ videoPath[r] # NoPath) =>
         /\ Calls(r, "unlinkVideo") = 1
         /\ Pos(r, "unlinkVideo") = Len(trace[r])
         /\ Invoked(r) => Settled(trace[r][Len(trace[r]) - 1])
         /\ response[r].status = IF Calls(r, "summarize") = 1 THEN 200 ELSE 500
    /\ (Answered(r) /\ videoPath[r] = NoPath) => trace[r] = <<>>
    /\ Invoked(r) <=> Did(r, "write", "ok")
    /\ (Calls(r, "write") = 1 /\ ~Did(r, "write", "ok")) =>
         /\ Calls(r, "check") = 0 /\ ff[r] = Undefined
         /\ pc[r] \in {"catch", "done"}
         /\ Answered(r) => (Len(trace[r]) = 2 /\ response[r].status = 500)

C17_Witness ==
  \E r \in Reqs : Answered(r) /\ Did(r, "write", "fail") /\ ~Invoked(r)
    /\ Calls(r, "unlinkVideo") = 1 /\ response[r].status = 500

\* the ASR request of r has been answered with an OK status
AsrCallSucceeded(r) == Calls(r, "asr") = 1 /\ ~asrRes[r].fail /\ asrRes[r].ok

\* C18: the summarization service is called exactly when the ASR call
\* succeeded, an empty transcription included, and the prompt it is sent is the
\* fixed instruction followed by the whole transcription
C18_SummarizedIffAsrSucceeded ==
  \A r \in Reqs :
    /\ AsrCallSucceeded(r) => (pc[r] = "summarize" \/ Calls(r, "summarize") = 1)
    /\ Calls(r, "summarize") = 1 =>
         /\ AsrCallSucceeded(r)
         /\ prompt[r] = Prompt(Str(<<>>)) \o ToStr(transcription[r])
====
